---- MODULE Spec2Model ----
(***************************************************************************)
(* Model of contracts/create_arc20_token.py: the function                  *)
(* create_arc20_token(), a linear sequence of SDK calls wrapped in one     *)
(* try/except, invoked once per process run.  Several runs in a row share  *)
(* only the output file arc20_token_info.json.                             *)
(*                                                                         *)
(* Every call into the SDK or the operating system either returns or       *)
(* raises; what it returns (the account's amount, the transaction id, the  *)
(* asset index) is chosen by the environment from small sets.              *)
(***************************************************************************)
EXTENDS Integers, Sequences, FiniteSets, TLC

(* ------------------------------ bounds -------------------------------- *)

\* Number of invocations of the script that are explored.
MaxRuns == 2

\* Number of distinct asset indices the node may assign.
NumAssetIds == 2

(* ------------------------- program constants -------------------------- *)

DEPLOYER_MNEMONIC == "cluster coin olympic congress ribbon lamp despair maple dizzy disagree undo inquiry purchase hamster curve nuclear topic shaft evil glide loud soldier talk absent wool"

\* microAlgos per ALGO, the divisor of line 46.
MICROALGOS_PER_ALGO == 1000000

\* wait_for_confirmation(algod_client, txid, 4)
WAIT_ROUNDS == 4

\* Python's None, and a present value, as sequences of length 0 and 1.
None == << >>

Some(v) == << v >>

\* A Python dict is a function from its keys; this is the dict without keys.
EmptyDict == [k \in {} |-> 0]

\* dict.get(key): the value, or None when the key is absent.
DictGet(d, k) == IF k \in DOMAIN d THEN Some(d[k]) ELSE None

(* ------------------------ environment's choices ----------------------- *)

\* Amounts (microAlgos) the node may report for the account.
Amounts == {0, 499999, 500000, 500001, 2000000}

\* Responses of account_info: with the 'amount' field, or without it.
AccountInfos == {EmptyDict} \cup {[amount |-> a] : a \in Amounts}

\* Transaction ids send_transaction may return.
TxIds == {"TXID_A", "TXID_B"}

\* Asset indices the node may assign to the created asset.
AssetIds == 42 .. (41 + NumAssetIds)

\* Responses of pending_transaction_info for a confirmed transaction.
PendingInfos == {[r \in {"confirmed-round"} |-> 1]}
                  \cup {("confirmed-round" :> 1) @@ ("asset-index" :> n) : n \in AssetIds}

\* Suggested parameters the node may hand out (the first valid round differs).
SuggestedParams == {[first |-> 1000, fee |-> 1000], [first |-> 1001, fee |-> 1000]}

\* Exception classes the calls raise; every one derives from Exception.
ExceptionClasses == {"WrongChecksumError", "AlgodHTTPError", "TypeError",
                     "ValueError", "ConfirmationTimeoutError",
                     "TransactionRejectedError", "KeyError", "OSError"}

(* ------------------------------- state -------------------------------- *)

VARIABLES
    pc,               \* the statement about to execute: a step, "idle", "except", "done"
    runs,             \* invocations started so far
    mnemonicValid,    \* whether DEPLOYER_MNEMONIC passes the SDK's checksum (fixed)
    file,             \* arc20_token_info.json: [exists, docs]
    fileAtStart,      \* the file as the current invocation found it
    private_key,      \* local private_key (None before line 36)
    creator_address,  \* local creator_address (None before line 38)
    account_info,     \* local account_info (a dict)
    balance,          \* local balance, a rational [num, den] (None before line 46)
    params,           \* local params (None before line 56)
    txn,              \* local txn (None before line 86)
    txnCount,         \* AssetConfigTxn objects constructed in this invocation
    signed_txn,       \* local signed_txn (None before line 93)
    txid,             \* local txid (None before line 97 returns)
    sendCalls,        \* send_transaction calls made in this invocation
    polls,            \* rounds wait_for_confirmation has polled
    confirmed,        \* wait_for_confirmation returned in this invocation
    ptx,              \* local ptx (a dict)
    asset_id,         \* local asset_id (None before line 106)
    opens,            \* open(..., "w") calls that succeeded in this invocation
    dumps,            \* json.dump calls that completed in this invocation
    returned,         \* the invocation has returned to its caller
    ret,              \* the value returned (None, or Some(asset id))
    exc,              \* the exception in flight or handled ("none" when there is none)
    failedAt,         \* the step that raised ("none" when none did)
    escaped,          \* an exception left create_arc20_token
    trace             \* the steps attempted in this invocation, in order

session  == <<runs, mnemonicValid, fileAtStart>>
identity == <<private_key, creator_address>>
acct     == <<account_info, balance>>
build    == <<params, txn, txnCount, signed_txn>>
submit   == <<txid, sendCalls, polls, confirmed>>
result   == <<ptx, asset_id>>
disk     == <<file, opens, dumps>>
outcome  == <<returned, ret, escaped>>
control  == <<pc, exc, failedAt, trace>>

vars == <<session, identity, acct, build, submit, result, disk, outcome, control>>

(* --------------------------- pure functions --------------------------- *)

\* mnemonic.to_private_key: a deterministic function of the phrase.
ToPrivateKey(m) == [sk_of |-> m]

\* account.address_from_private_key: a deterministic function of the key.
AddressFromPrivateKey(k) == [addr_of |-> k]

\* A plausible slip: the amount is compared as if it were already in ALGO.
BalanceNoDivision(amount) == [num |-> amount, den |-> 1]

\* line 46: account_info.get('amount') / 1_000_000, as an exact rational.
Balance(amount) == [num |-> amount, den |-> MICROALGOS_PER_ALGO]

\* line 50: balance < 0.5, i.e. num/den < 1/2.
InsufficientBalance(b) == b.num * 2 < b.den * 1

\* The SDK's encoding of "no address": the address of no key.
NoAddress == [addr_of |-> [sk_of |-> ""]]

\* A plausible slip: the reserve address is left unset.
TokenConfigNoReserve(addr) ==
    [total |-> 1000000 * 100, decimals |-> 2, default_frozen |-> FALSE,
     unit_name |-> "STRM", asset_name |-> "StreamFi Payment Token",
     url |-> "https://streamfi.algorand.network/token",
     manager |-> addr, reserve |-> NoAddress, freeze |-> addr, clawback |-> addr]

\* lines 60-72: token_config for the creator's address.
TokenConfig(addr) ==
    [total |-> 1000000 * 100, decimals |-> 2, default_frozen |-> FALSE,
     unit_name |-> "STRM", asset_name |-> "StreamFi Payment Token",
     url |-> "https://streamfi.algorand.network/token",
     manager |-> addr, reserve |-> addr, freeze |-> addr, clawback |-> addr]

\* lines 86-90: AssetConfigTxn(sender=creator_address, sp=params, **token_config).
AssetConfigTxn(sender, sp, cfg) ==
    [sender |-> sender, sp |-> sp, total |-> cfg.total, decimals |-> cfg.decimals,
     default_frozen |-> cfg.default_frozen, unit_name |-> cfg.unit_name,
     asset_name |-> cfg.asset_name, url |-> cfg.url, manager |-> cfg.manager,
     reserve |-> cfg.reserve, freeze |-> cfg.freeze, clawback |-> cfg.clawback]

\* lines 114-122: token_info.
TokenInfo(aid, cfg, addr, tx) ==
    [asset_id |-> aid, asset_name |-> cfg.asset_name, unit_name |-> cfg.unit_name,
     total_supply |-> cfg.total, decimals |-> cfg.decimals, creator |-> addr,
     txid |-> tx]

\* A plausible slip: the file is opened in append mode.
OpenForAppend(f) == [exists |-> TRUE, docs |-> f.docs]

\* line 124: open(path, "w") creates the file or truncates it.
OpenForWrite(f) == [exists |-> TRUE, docs |-> << >>]

\* line 126: json.dump writes one JSON document to the open file.
JsonDump(f, doc) == [f EXCEPT !.docs = Append(@, doc)]

\* A plausible slip: the handler names one SDK error class only.
CaughtHTTPOnly(e) == e = "AlgodHTTPError"

\* line 132: "except Exception" catches every subclass of Exception.
Caught(e) == e \in ExceptionClasses

(* ------------------------------ control ------------------------------- *)

\* The statements of the try block, in program order.
Order == <<"client", "to_private_key", "address", "account_info", "balance",
           "gate", "params", "construct", "sign", "send", "wait", "pending",
           "extract", "open", "dump", "return">>

\* The statement at pc starts executing.
Begin(step) == pc = step /\ trace' = Append(trace, step)

\* The statement completes and control moves to the next one.
Goto(next) == pc' = next /\ UNCHANGED <<exc, failedAt>>

\* The statement raises e: control moves to the except clause.
Raise(e) == pc' = "except" /\ exc' = e /\ failedAt' = pc

(* ------------------------------- Init --------------------------------- *)

Init ==
    /\ pc = "idle"
    /\ runs = 0
    /\ mnemonicValid \in BOOLEAN
    /\ file = [exists |-> FALSE, docs |-> << >>]
    /\ fileAtStart = [exists |-> FALSE, docs |-> << >>]
    /\ private_key = None
    /\ creator_address = None
    /\ account_info = EmptyDict
    /\ balance = None
    /\ params = None
    /\ txn = None
    /\ txnCount = 0
    /\ signed_txn = None
    /\ txid = None
    /\ sendCalls = 0
    /\ polls = 0
    /\ confirmed = FALSE
    /\ ptx = EmptyDict
    /\ asset_id = None
    /\ opens = 0
    /\ dumps = 0
    /\ returned = FALSE
    /\ ret = None
    /\ exc = "none"
    /\ failedAt = "none"
    /\ escaped = FALSE
    /\ trace = << >>

(* ------------------------------ actions ------------------------------- *)

\* lines 137-145: the script is run; every local starts unassigned.
Invoke ==
    /\ pc \in {"idle", "done"}
    /\ runs < MaxRuns
    /\ runs' = runs + 1
    /\ fileAtStart' = file
    /\ pc' = "client"
    /\ private_key' = None
    /\ creator_address' = None
    /\ account_info' = EmptyDict
    /\ balance' = None
    /\ params' = None
    /\ txn' = None
    /\ txnCount' = 0
    /\ signed_txn' = None
    /\ txid' = None
    /\ sendCalls' = 0
    /\ polls' = 0
    /\ confirmed' = FALSE
    /\ ptx' = EmptyDict
    /\ asset_id' = None
    /\ opens' = 0
    /\ dumps' = 0
    /\ returned' = FALSE
    /\ ret' = None
    /\ exc' = "none"
    /\ failedAt' = "none"
    /\ escaped' = FALSE
    /\ trace' = << >>
    /\ UNCHANGED <<mnemonicValid, file>>

\* line 33: algod.AlgodClient(...) only stores the endpoint; no I/O.
Connect ==
    /\ Begin("client")
    /\ Goto("to_private_key")
    /\ UNCHANGED <<session, identity, acct, build, submit, result, disk, outcome>>

\* line 36: mnemonic.to_private_key(DEPLOYER_MNEMONIC).
DeriveKey ==
    /\ Begin("to_private_key")
    /\ IF mnemonicValid
         THEN private_key' = Some(ToPrivateKey(DEPLOYER_MNEMONIC)) /\ Goto("address")
         ELSE Raise("WrongChecksumError") /\ UNCHANGED private_key
    /\ UNCHANGED <<session, creator_address, acct, build, submit, result, disk, outcome>>

\* line 38: account.address_from_private_key(private_key).
DeriveAddress ==
    /\ Begin("address")
    /\ creator_address' = Some(AddressFromPrivateKey(private_key[1]))
    /\ Goto("account_info")
    /\ UNCHANGED <<session, private_key, acct, build, submit, result, disk, outcome>>

\* line 45: algod_client.account_info(creator_address).
AccountInfo ==
    /\ Begin("account_info")
    /\ \/ \E info \in AccountInfos : account_info' = info /\ Goto("balance")
       \/ Raise("AlgodHTTPError") /\ UNCHANGED account_info
    /\ UNCHANGED <<session, identity, balance, build, submit, result, disk, outcome>>

\* line 46: balance = account_info.get('amount') / 1_000_000.
ComputeBalance ==
    /\ Begin("balance")
    /\ IF DictGet(account_info, "amount") = None
         THEN Raise("TypeError") /\ UNCHANGED balance
         ELSE balance' = Some(Balance(DictGet(account_info, "amount")[1])) /\ Goto("gate")
    /\ UNCHANGED <<session, identity, account_info, build, submit, result, disk, outcome>>

\* A plausible slip: the message is printed but "return None" is missing.
BalanceGateNoReturn ==
    /\ Begin("gate")
    /\ pc' = "params"
    /\ UNCHANGED <<returned, ret, exc, failedAt, escaped>>
    /\ UNCHANGED <<session, identity, acct, build, submit, result, disk>>

\* lines 50-53: the balance gate; "return None" when the balance is too low.
BalanceGate ==
    /\ Begin("gate")
    /\ IF InsufficientBalance(balance[1])
         THEN pc' = "done" /\ returned' = TRUE /\ ret' = None
         ELSE pc' = "params" /\ UNCHANGED <<returned, ret>>
    /\ UNCHANGED <<exc, failedAt, escaped>>
    /\ UNCHANGED <<session, identity, acct, build, submit, result, disk>>

\* line 56: algod_client.suggested_params().
FetchParams ==
    /\ Begin("params")
    /\ \/ \E sp \in SuggestedParams : params' = Some(sp) /\ Goto("construct")
       \/ Raise("AlgodHTTPError") /\ UNCHANGED params
    /\ UNCHANGED <<txn, txnCount, signed_txn>>
    /\ UNCHANGED <<session, identity, acct, submit, result, disk, outcome>>

\* lines 60-90: token_config and AssetConfigTxn(...); the constructor validates
\* its arguments and may raise.
ConstructTxn ==
    /\ Begin("construct")
    /\ \/ /\ txn' = Some(AssetConfigTxn(creator_address[1], params[1],
                                        TokenConfig(creator_address[1])))
          /\ txnCount' = txnCount + 1
          /\ Goto("sign")
       \/ Raise("ValueError") /\ UNCHANGED <<txn, txnCount>>
    /\ UNCHANGED <<params, signed_txn>>
    /\ UNCHANGED <<session, identity, acct, submit, result, disk, outcome>>

\* line 93: txn.sign(private_key).
Sign ==
    /\ Begin("sign")
    /\ \/ /\ signed_txn' = Some([transaction |-> txn[1], signer |-> private_key[1]])
          /\ Goto("send")
       \/ Raise("ValueError") /\ UNCHANGED signed_txn
    /\ UNCHANGED <<params, txn, txnCount>>
    /\ UNCHANGED <<session, identity, acct, submit, result, disk, outcome>>

\* A plausible slip: a rejected submission is sent again.
SendTransactionWithRetry ==
    /\ Begin("send")
    /\ sendCalls' = sendCalls + 1
    /\ \/ \E t \in TxIds : txid' = Some(t) /\ Goto("wait")
       \/ IF sendCalls = 0
            THEN pc' = "send" /\ UNCHANGED <<exc, failedAt, txid>>
            ELSE Raise("AlgodHTTPError") /\ UNCHANGED txid
    /\ UNCHANGED <<polls, confirmed>>
    /\ UNCHANGED <<session, identity, acct, build, result, disk, outcome>>

\* line 97: algod_client.send_transaction(signed_txn).
SendTransaction ==
    /\ Begin("send")
    /\ sendCalls' = sendCalls + 1
    /\ \/ \E t \in TxIds : txid' = Some(t) /\ Goto("wait")
       \/ Raise("AlgodHTTPError") /\ UNCHANGED txid
    /\ UNCHANGED <<polls, confirmed>>
    /\ UNCHANGED <<session, identity, acct, build, result, disk, outcome>>

\* line 102: wait_for_confirmation enters; the step is attempted once.
WaitBegin ==
    /\ Begin("wait")
    /\ pc' = "polling"
    /\ UNCHANGED <<exc, failedAt>>
    /\ UNCHANGED <<session, identity, acct, build, submit, result, disk, outcome>>

\* line 102: one round of wait_for_confirmation's loop, within the budget: the
\* transaction is confirmed, or rejected by the pool, or the node fails, or the
\* round passes without news.
WaitPoll ==
    /\ pc = "polling"
    /\ polls < WAIT_ROUNDS
    /\ \/ confirmed' = TRUE /\ pc' = "pending" /\ UNCHANGED <<polls, exc, failedAt>>
       \/ /\ pc' = "except" /\ exc' = "TransactionRejectedError" /\ failedAt' = "wait"
          /\ UNCHANGED <<polls, confirmed>>
       \/ /\ pc' = "except" /\ exc' = "AlgodHTTPError" /\ failedAt' = "wait"
          /\ UNCHANGED <<polls, confirmed>>
       \/ polls' = polls + 1 /\ UNCHANGED <<pc, confirmed, exc, failedAt>>
    /\ UNCHANGED <<txid, sendCalls, trace>>
    /\ UNCHANGED <<session, identity, acct, build, result, disk, outcome>>

\* A plausible slip: the timeout is swallowed and the workflow goes on.
WaitTimeoutSwallowed ==
    /\ pc = "polling"
    /\ polls >= WAIT_ROUNDS
    /\ pc' = "pending" /\ exc' = "ConfirmationTimeoutError" /\ failedAt' = "wait"
    /\ UNCHANGED <<submit, trace>>
    /\ UNCHANGED <<session, identity, acct, build, result, disk, outcome>>

\* line 102: the budget of 4 rounds is used up: ConfirmationTimeoutError.
WaitTimeout ==
    /\ pc = "polling"
    /\ polls >= WAIT_ROUNDS
    /\ pc' = "except" /\ exc' = "ConfirmationTimeoutError" /\ failedAt' = "wait"
    /\ UNCHANGED <<submit, trace>>
    /\ UNCHANGED <<session, identity, acct, build, result, disk, outcome>>

\* line 105: algod_client.pending_transaction_info(txid).
PendingInfo ==
    /\ Begin("pending")
    /\ \/ \E info \in PendingInfos : ptx' = info /\ Goto("extract")
       \/ Raise("AlgodHTTPError") /\ UNCHANGED ptx
    /\ UNCHANGED asset_id
    /\ UNCHANGED <<session, identity, acct, build, submit, disk, outcome>>

\* line 106: asset_id = ptx["asset-index"]; KeyError when the key is absent.
ExtractAssetId ==
    /\ Begin("extract")
    /\ IF "asset-index" \in DOMAIN ptx
         THEN asset_id' = Some(ptx["asset-index"]) /\ Goto("open")
         ELSE Raise("KeyError") /\ UNCHANGED asset_id
    /\ UNCHANGED ptx
    /\ UNCHANGED <<session, identity, acct, build, submit, disk, outcome>>

\* line 124: open("arc20_token_info.json", "w").
OpenFile ==
    /\ Begin("open")
    /\ \/ file' = OpenForWrite(file) /\ opens' = opens + 1 /\ Goto("dump")
       \/ Raise("OSError") /\ UNCHANGED <<file, opens>>
    /\ UNCHANGED dumps
    /\ UNCHANGED <<session, identity, acct, build, submit, result, outcome>>

\* lines 124-126: json.dump(token_info, f, indent=2) and the close of the file;
\* when the write fails the file stays as the open left it.
DumpJson ==
    /\ Begin("dump")
    /\ \/ /\ file' = JsonDump(file, TokenInfo(asset_id[1], TokenConfig(creator_address[1]),
                                              creator_address[1], txid[1]))
          /\ dumps' = dumps + 1
          /\ Goto("return")
       \/ Raise("OSError") /\ UNCHANGED <<file, dumps>>
    /\ UNCHANGED opens
    /\ UNCHANGED <<session, identity, acct, build, submit, result, outcome>>

\* line 130: return asset_id.
Return ==
    /\ Begin("return")
    /\ pc' = "done"
    /\ returned' = TRUE
    /\ ret' = asset_id
    /\ UNCHANGED <<exc, failedAt, escaped>>
    /\ UNCHANGED <<session, identity, acct, build, submit, result, disk>>

\* lines 132-135: the except clause; a caught exception becomes "return None",
\* an exception the clause does not name leaves the function.
Except ==
    /\ pc = "except"
    /\ pc' = "done"
    /\ returned' = TRUE
    /\ ret' = None
    /\ escaped' = ~Caught(exc)
    /\ UNCHANGED <<exc, failedAt, trace>>
    /\ UNCHANGED <<session, identity, acct, build, submit, result, disk>>

Next ==
    \/ Invoke
    \/ Connect
    \/ DeriveKey
    \/ DeriveAddress
    \/ AccountInfo
    \/ ComputeBalance
    \/ BalanceGate
    \/ FetchParams
    \/ ConstructTxn
    \/ Sign
    \/ SendTransaction
    \/ WaitBegin
    \/ WaitPoll
    \/ WaitTimeout
    \/ PendingInfo
    \/ ExtractAssetId
    \/ OpenFile
    \/ DumpJson
    \/ Return
    \/ Except

Spec == Init /\ [][Next]_vars

(* ------------------------- shared vocabulary -------------------------- *)

\* The node answered the balance query with an amount.
AmountKnown == "amount" \in DOMAIN account_info

\* The last step attempted in this invocation.
LastStep == IF trace = << >> THEN "none" ELSE trace[Len(trace)]

\* The address the fixed phrase derives.
DerivedAddress == AddressFromPrivateKey(ToPrivateKey(DEPLOYER_MNEMONIC))

\* The issuance record expected for asset index n and transaction id t.
ExpectedRecord(n, t) ==
    [asset_id |-> n, asset_name |-> "StreamFi Payment Token", unit_name |-> "STRM",
     total_supply |-> 100000000, decimals |-> 2, creator |-> DerivedAddress,
     txid |-> t]

\* s is a prefix of t.
IsPrefix(s, t) == Len(s) <= Len(t) /\ \A i \in 1 .. Len(s) : s[i] = t[i]

(* ------------------------------- claims ------------------------------- *)

\* C1: whenever the queried amount is below 500000 microAlgos (0.5 ALGO), no
\* send_transaction call has been made, no transaction id exists, the file has
\* not been opened or written, and once the invocation ends it ended at the
\* gate, returning None.
C1_NoSubmissionBelowThreshold ==
    (AmountKnown /\ account_info.amount < 500000) =>
        /\ sendCalls = 0
        /\ txid = None
        /\ opens = 0
        /\ dumps = 0
        /\ file = fileAtStart
        /\ pc \in {"balance", "gate", "done"}
        /\ pc = "done" => (returned /\ ret = None /\ ~escaped /\ LastStep = "gate")

C1_Witness ==
    /\ pc = "done"
    /\ AmountKnown /\ account_info.amount = 499999
    /\ returned /\ ret = None
    /\ sendCalls = 0

\* C2 (as claimed): at the end of every invocation the record has been written
\* if and only if the confirmation was reached and an asset id was extracted.
C2_RecordIffConfirmedWithAssetId ==
    pc = "done" => ((dumps = 1) <=> (confirmed /\ asset_id # None))

\* C3 (as claimed): every invocation ends either with a confirmed asset id and
\* its persisted record, or with no transaction submitted and the file neither
\* written nor truncated.
C3_RecordOrNoSideEffect ==
    pc = "done" =>
        \/ /\ confirmed /\ asset_id # None
           /\ file.docs = << ExpectedRecord(asset_id[1], txid[1]) >>
        \/ /\ txid = None
           /\ opens = 0
           /\ file = fileAtStart

\* C3 (amended): every invocation ends in one of three ways: the asset id is
\* returned after one submission and the file holds exactly its record; or None
\* is returned with no submission attempted and the file untouched; or None is
\* returned after a failure at or after the submission step, and then the file
\* differs from what the invocation found only when the write itself failed.
C3_Amended ==
    pc = "done" =>
        \/ /\ ret # None /\ ret = asset_id /\ confirmed /\ sendCalls = 1
           /\ file = [exists |-> TRUE, docs |-> << ExpectedRecord(asset_id[1], txid[1]) >>]
        \/ /\ ret = None /\ sendCalls = 0 /\ txid = None
           /\ opens = 0 /\ file = fileAtStart
        \/ /\ ret = None /\ sendCalls = 1
           /\ failedAt \in {"send", "wait", "pending", "extract", "open", "dump"}
           /\ (file # fileAtStart) => failedAt = "dump"

C3_Witness ==
    /\ pc = "done"
    /\ txid # None
    /\ exc = "ConfirmationTimeoutError"
    /\ ret = None
    /\ dumps = 0

\* C4: once the 4-round budget is used up without a confirmation, the
\* invocation raises ConfirmationTimeoutError, never opens or writes the file,
\* and ends returning None with no exception leaving the function.
C4_TimeoutNoRecord ==
    (polls >= WAIT_ROUNDS /\ ~confirmed /\ pc # "polling") =>
        /\ exc = "ConfirmationTimeoutError"
        /\ failedAt = "wait"
        /\ pc \in {"except", "done"}
        /\ opens = 0
        /\ dumps = 0
        /\ file = fileAtStart
        /\ ~escaped
        /\ pc = "done" => (returned /\ ret = None)

C4_Witness ==
    /\ pc = "done"
    /\ polls = 4
    /\ exc = "ConfirmationTimeoutError"
    /\ txid # None
    /\ returned /\ ret = None
    /\ file = fileAtStart

\* C5 (as claimed), read in the claim's favour for the invocations in which no
\* step raises: such an invocation has made exactly one send_transaction call
\* when it ends, and a successful one opened and wrote the file exactly once.
C5_ExactlyOneSubmission ==
    (pc = "done" /\ failedAt = "none") =>
        /\ sendCalls = 1
        /\ ret # None => (opens = 1 /\ dumps = 1)

\* C5 (amended): every invocation makes at most one send_transaction call,
\* exactly one once it has reached the submission step; a successful invocation
\* made exactly one call and opened and wrote the file exactly once; a failure
\* at any step leaves the count at most one.
C5_Amended ==
    /\ sendCalls <= 1
    /\ opens <= 1
    /\ dumps <= 1
    /\ (sendCalls = 1) <=> (\E i \in 1 .. Len(trace) : trace[i] = "send")
    /\ Cardinality({i \in 1 .. Len(trace) : trace[i] = "send"}) <= 1
    /\ (pc = "done" /\ ret # None) => (sendCalls = 1 /\ opens = 1 /\ dumps = 1)
    /\ (pc = "done" /\ failedAt = "send") => (sendCalls = 1 /\ txid = None)

C5_Witness ==
    /\ pc = "done"
    /\ ret # None
    /\ sendCalls = 1
    /\ opens = 1
    /\ dumps = 1

\* C6: whenever a step has raised, control is in the except clause or the
\* invocation is over, the step that raised is the last one attempted (no later
\* step ran), the exception does not leave the function, and the invocation
\* ends returning None.
C6_FailureBecomesNone ==
    (failedAt # "none") =>
        /\ exc # "none"
        /\ pc \in {"except", "done"}
        /\ LastStep = failedAt
        /\ ~escaped
        /\ pc = "done" => (returned /\ ret = None)

C6_Witness ==
    /\ pc = "done"
    /\ failedAt = "balance"
    /\ exc = "TypeError"
    /\ ~AmountKnown
    /\ returned /\ ret = None

\* C7 (as claimed): every invocation whose queried amount is at least 500000
\* microAlgos constructs exactly one transaction, with sender the derived
\* address and manager, reserve, freeze and clawback equal to the sender.
C7_GatePassedConstructsOne ==
    (pc = "done" /\ AmountKnown /\ account_info.amount >= 500000) =>
        /\ txnCount = 1
        /\ txn # None
        /\ txn[1].sender = DerivedAddress
        /\ txn[1].manager = txn[1].sender
        /\ txn[1].reserve = txn[1].sender
        /\ txn[1].freeze = txn[1].sender
        /\ txn[1].clawback = txn[1].sender

\* C7 (amended): in every invocation whose queried amount is at least 500000
\* microAlgos the gate does not end the invocation: control goes on to the
\* parameter fetch, and unless that fetch or the construction raises exactly
\* one transaction is constructed (never more than one), whose sender is the
\* derived address and whose manager, reserve, freeze and clawback equal it.
C7_Amended ==
    (AmountKnown /\ account_info.amount >= 500000) =>
        /\ txnCount <= 1
        /\ (LastStep = "gate") => (pc = "params" /\ ~returned)
        /\ (pc = "done" /\ failedAt \notin {"params", "construct"}) => txnCount = 1
        /\ (\E i \in 1 .. Len(trace) : trace[i] = "sign") => txnCount = 1
        /\ (txnCount = 1) =>
              /\ txn # None
              /\ txn[1].sender = DerivedAddress
              /\ txn[1].sender = creator_address[1]
              /\ txn[1].manager = txn[1].sender
              /\ txn[1].reserve = txn[1].sender
              /\ txn[1].freeze = txn[1].sender
              /\ txn[1].clawback = txn[1].sender

C7_Witness ==
    /\ pc = "sign"
    /\ AmountKnown /\ account_info.amount = 500000
    /\ txnCount = 1
    /\ txn[1].sender = DerivedAddress
    /\ txn[1].reserve = DerivedAddress

\* C8 (as claimed): for every asset index N the node reports for the confirmed
\* transaction, the invocation ends with N returned and with the file holding
\* the seven-field record of N, the derived address and the submission's id.
C8_RecordMatchesReportedAssetIndex ==
    (pc = "done" /\ "asset-index" \in DOMAIN ptx) =>
        /\ ret = Some(ptx["asset-index"])
        /\ file.docs = << ExpectedRecord(ptx["asset-index"], txid[1]) >>

\* C9 (as claimed): at the end of every invocation the file holds exactly the
\* record of this invocation when it succeeded, and exactly what it held
\* before when it failed.
C9_OverwriteOnSuccessOnly ==
    pc = "done" =>
        IF ret # None
          THEN file.docs = << ExpectedRecord(ret[1], txid[1]) >>
          ELSE file.docs = fileAtStart.docs

\* C10: the steps attempted are always a prefix of the fixed order; a step is
\* about to run only when every step before it has completed without raising;
\* the parameters are fetched only after the gate has passed (amount at least
\* 500000 microAlgos); and an invocation ends only by completing the sequence,
\* by the insufficient-balance return at the gate, or through the except
\* clause after the step that raised.
C10_FixedOrder ==
    /\ IsPrefix(trace, Order)
    /\ (pc \notin {"idle", "polling", "except", "done"}) =>
          (Len(trace) < Len(Order) /\ pc = Order[Len(trace) + 1] /\ failedAt = "none")
    /\ (pc = "polling") => (LastStep = "wait" /\ failedAt = "none")
    /\ (\E i \in 1 .. Len(trace) : trace[i] = "params") =>
          (AmountKnown /\ account_info.amount >= 500000)
    /\ (pc = "done") =>
          \/ trace = Order /\ failedAt = "none" /\ ret # None
          \/ /\ LastStep = "gate" /\ failedAt = "none" /\ ret = None
             /\ AmountKnown /\ account_info.amount < 500000
          \/ failedAt # "none" /\ LastStep = failedAt /\ ret = None

C10_Witness ==
    /\ pc = "done"
    /\ trace = Order
    /\ ret # None

====
